---- MODULE Spec2Model ----
(***************************************************************************)
(* The termbox2 NIF bridge (lib/termbox2_nif/c_src/termbox2_nif.c) as a    *)
(* state machine.  The bridge keeps no state of its own between calls, so  *)
(* the state is the observable trace of the most recent invocation: which  *)
(* handler ran, with which argument terms, which Terminal Engine calls and *)
(* platform / stdio calls it made, what it put on standard output, which   *)
(* transient buffer it filled, and what it returned to the caller.         *)
(***************************************************************************)
EXTENDS Integers, Sequences, FiniteSets

VARIABLES
    platform,   \* "win32" | "posix": which side of #ifdef _WIN32 was built
    crashed,    \* the OS process was terminated (SIGSEGV)
    op,         \* name of the handler of the most recent invocation
    argv,       \* its argument terms
    result,     \* the term it returned (k = "none": nothing was returned)
    engine,     \* Terminal Engine calls it made, in order
    plat,       \* platform / stdio calls it made, in order
    stdout,     \* bytes its printf put on the standard output stream
    buf,        \* bytes it wrote into its transient buffer, index 0 first
    cap,        \* capacity in bytes of that buffer's backing storage
    alloc,      \* it called malloc
    freed       \* it called free

vars == <<platform, crashed, op, argv, result, engine, plat, stdout, buf, cap,
          alloc, freed>>

----------------------------------------------------------------------------
(* Bounds of the model *)

\* payload lengths for set_title range up to TITLE_SIZE + MaxOver
MaxOver == 1
\* payload lengths for print range over 0 .. MaxPrintLen
MaxPrintLen == 2

(* Program constants *)

\* char title[256]; sizeof(title)
TITLE_SIZE == 256
\* x > 32767 || y > 32767
COORD_MAX == 32767

Byte == 0..255

----------------------------------------------------------------------------
(* Erlang terms at the boundary are triples <<kind, number, bytes>>:       *)
(*   "int"    an integer that fits the native int width, its value         *)
(*   "bignum" an integer outside both native widths, its sign              *)
(*   "atom"   a non-numeric, non-binary, non-list term                     *)
(*   "bin"    a binary, its bytes                                          *)
(*   "list"   a proper list, its integer elements                          *)
(* Returned terms are triples <<kind, number, text>>.                      *)

Kind(x) == x[1]
Num(x) == x[2]
Bytes(x) == x[3]

IntTerm(n) == <<"int", n, <<>>>>
Bignum(s) == <<"bignum", s, <<>>>>
Atom == <<"atom", 0, <<>>>>
Bin(bytes) == <<"bin", 0, bytes>>
List(elems) == <<"list", 0, elems>>

\* a payload of length len whose bytes alternate 'A','B', with a zero byte at
\* position z (1-based) when 1 <= z <= len
Payload(len, z) == [i \in 1..len |-> IF i = z THEN 0 ELSE 65 + (i % 2)]

(* Argument conversion (erl_nif) *)

enif_get_int(term) == Kind(term) = "int"

enif_get_uint(term) == Kind(term) = "int" /\ Num(term) >= 0

enif_is_binary(term) == Kind(term) = "bin"

enif_inspect_binary(term) == Kind(term) = "bin"

(* Result terms *)

enif_make_int(n) == <<"int", n, "">>

ok_atom == <<"atom", 0, "ok">>

enif_make_badarg == <<"badarg", 0, "">>

error_badarg == <<"error_atom", 0, "badarg">>

ok_set == <<"ok_string", 0, "set">>

error_string(msg) == <<"error_string", 0, msg>>

no_result == <<"none", 0, "">>

\* what the Terminal Engine may return from a call
EngineRets == {-1, 0, 3}

\* one Terminal Engine call: function, integer arguments, string argument
\* (the bytes of the buffer passed, terminator included), returned value
EngineCall(fn, args, str, ret) == <<fn, args, str, ret>>

\* one platform / stdio call: function, arguments, whether it succeeded
PlatCall(fn, args, okay) == <<fn, args, okay>>

Fn(c) == c[1]
Args(c) == c[2]
Str(c) == c[3]
Ret(c) == c[4]
Ok(c) == c[3]

----------------------------------------------------------------------------
Init ==
    /\ platform \in {"win32", "posix"}
    /\ crashed = FALSE
    /\ op = "none"
    /\ argv = <<>>
    /\ result = no_result
    /\ engine = <<>>
    /\ plat = <<>>
    /\ stdout = <<>>
    /\ buf = <<>>
    /\ cap = 0
    /\ alloc = FALSE
    /\ freed = FALSE

\* an invocation that touches neither a buffer nor the platform
Forward(name, args, res, calls) ==
    /\ ~crashed
    /\ op' = name
    /\ argv' = args
    /\ result' = res
    /\ engine' = calls
    /\ plat' = <<>>
    /\ stdout' = <<>>
    /\ buf' = <<>>
    /\ cap' = 0
    /\ alloc' = FALSE
    /\ freed' = FALSE
    /\ UNCHANGED <<platform, crashed>>

nif_tb_init ==
    \E r \in EngineRets :
        Forward("tb_init", <<>>, enif_make_int(r), <<EngineCall("tb_init", <<>>, <<>>, r)>>)

nif_tb_shutdown ==
    \E r \in EngineRets :
        Forward("tb_shutdown", <<>>, ok_atom, <<EngineCall("tb_shutdown", <<>>, <<>>, r)>>)

nif_tb_width ==
    \E r \in EngineRets :
        Forward("tb_width", <<>>, enif_make_int(r), <<EngineCall("tb_width", <<>>, <<>>, r)>>)

nif_tb_height ==
    \E r \in EngineRets :
        Forward("tb_height", <<>>, enif_make_int(r), <<EngineCall("tb_height", <<>>, <<>>, r)>>)

nif_tb_clear ==
    \E r \in EngineRets :
        Forward("tb_clear", <<>>, ok_atom, <<EngineCall("tb_clear", <<>>, <<>>, r)>>)

nif_tb_present ==
    \E r \in EngineRets :
        Forward("tb_present", <<>>, ok_atom, <<EngineCall("tb_present", <<>>, <<>>, r)>>)

\* the handler returning the success marker in place of the engine's integer
nif_tb_hide_cursor_okMarker ==
    \E r \in EngineRets :
        Forward("tb_hide_cursor", <<>>, ok_atom,
                <<EngineCall("tb_hide_cursor", <<>>, <<>>, r)>>)

nif_tb_hide_cursor ==
    \E r \in EngineRets :
        Forward("tb_hide_cursor", <<>>, enif_make_int(r),
                <<EngineCall("tb_hide_cursor", <<>>, <<>>, r)>>)

(* Argument sets drawn for the handlers that take arguments *)

IntTerms == {Atom, Bignum(1), IntTerm(-1), IntTerm(0), IntTerm(7)}

ModeTerms == {Atom, Bignum(-1), IntTerm(-1), IntTerm(0), IntTerm(3)}

SetCellArgs ==
    {Atom, IntTerm(-1), IntTerm(7)} \X {Bignum(1), IntTerm(7)}
        \X {IntTerm(-1), IntTerm(65)} \X {Atom, IntTerm(7)} \X {IntTerm(-1), IntTerm(0)}

PrintTexts ==
    {Atom, List(<<65>>)}
        \cup {Bin(Payload(len, z)) : len \in 0..MaxPrintLen, z \in {0, 2}}

PrintArgs ==
    {Atom, IntTerm(7)} \X {IntTerm(-1), Bignum(1)} \X {IntTerm(-1), IntTerm(7)}
        \X {Atom, IntTerm(0)} \X PrintTexts

\* the native values of a tuple of converted integer arguments
Native(args) == [i \in 1..Len(args) |-> Num(args[i])]

set_cursor_args_ok(a) == enif_get_int(a[1]) /\ enif_get_int(a[2])

nif_tb_set_cursor ==
    \E a \in IntTerms \X IntTerms, r \in EngineRets :
        IF ~set_cursor_args_ok(a)
        THEN Forward("tb_set_cursor", a, enif_make_badarg, <<>>)
        ELSE Forward("tb_set_cursor", a, ok_atom,
                     <<EngineCall("tb_set_cursor", Native(a), <<>>, r)>>)

\* the validation chain with its last conversion left out
set_cell_args_ok_lastUnchecked(a) ==
    /\ enif_get_int(a[1])
    /\ enif_get_int(a[2])
    /\ enif_get_uint(a[3])
    /\ enif_get_uint(a[4])

set_cell_args_ok(a) ==
    /\ enif_get_int(a[1])
    /\ enif_get_int(a[2])
    /\ enif_get_uint(a[3])
    /\ enif_get_uint(a[4])
    /\ enif_get_uint(a[5])

nif_tb_set_cell ==
    \E a \in SetCellArgs, r \in EngineRets :
        IF ~set_cell_args_ok(a)
        THEN Forward("tb_set_cell", a, enif_make_badarg, <<>>)
        ELSE Forward("tb_set_cell", a, enif_make_int(r),
                     <<EngineCall("tb_set_cell", Native(a), <<>>, r)>>)

mode_args_ok(a) == enif_get_int(a[1])

nif_tb_set_input_mode ==
    \E m \in ModeTerms, r \in EngineRets :
        IF ~mode_args_ok(<<m>>)
        THEN Forward("tb_set_input_mode", <<m>>, enif_make_badarg, <<>>)
        ELSE Forward("tb_set_input_mode", <<m>>, enif_make_int(r),
                     <<EngineCall("tb_set_input_mode", Native(<<m>>), <<>>, r)>>)

nif_tb_set_output_mode ==
    \E m \in ModeTerms, r \in EngineRets :
        IF ~mode_args_ok(<<m>>)
        THEN Forward("tb_set_output_mode", <<m>>, enif_make_badarg, <<>>)
        ELSE Forward("tb_set_output_mode", <<m>>, enif_make_int(r),
                     <<EngineCall("tb_set_output_mode", Native(<<m>>), <<>>, r)>>)

print_args_ok(a) ==
    /\ enif_get_int(a[1])
    /\ enif_get_int(a[2])
    /\ enif_get_uint(a[3])
    /\ enif_get_uint(a[4])
    /\ enif_inspect_binary(a[5])

\* memcpy(str, bin.data, bin.size); str[bin.size] = '\0'
CopyTerminated(bytes) == bytes \o <<0>>

\* what the unchecked malloc can lead to.  "ok": the block was allocated.
\* "segv": malloc returned NULL and the write through it faulted.  "wild":
\* malloc returned NULL and the writes through it went through (address 0
\* mapped), so execution continued with str = NULL.
MallocOutcomes == {"ok", "segv", "wild"}

nif_tb_print ==
    \E a \in PrintArgs, r \in EngineRets, m \in MallocOutcomes :
        /\ ~crashed
        /\ op' = "tb_print"
        /\ argv' = a
        /\ plat' = <<>>
        /\ stdout' = <<>>
        /\ UNCHANGED platform
        /\ IF ~print_args_ok(a)
           THEN /\ result' = enif_make_badarg
                /\ engine' = <<>>
                /\ buf' = <<>>
                /\ cap' = 0
                /\ alloc' = FALSE
                /\ freed' = FALSE
                /\ crashed' = FALSE
           ELSE /\ alloc' = TRUE
                /\ cap' = IF m = "ok" THEN Len(Bytes(a[5])) + 1 ELSE 0
                /\ IF m = "segv"
                   THEN /\ crashed' = TRUE
                        /\ buf' = <<>>
                        /\ engine' = <<>>
                        /\ result' = no_result
                        /\ freed' = FALSE
                   ELSE /\ crashed' = FALSE
                        /\ buf' = CopyTerminated(Bytes(a[5]))
                        /\ engine' = <<EngineCall("tb_print", Native(SubSeq(a, 1, 4)),
                                                  CopyTerminated(Bytes(a[5])), r)>>
                        /\ result' = enif_make_int(r)
                        /\ freed' = TRUE

----------------------------------------------------------------------------
(* Window decoration: set title, set position *)

Min(a, b) == IF a < b THEN a ELSE b

\* enif_get_string(env, term, buf, size, ERL_NIF_LATIN1): walks the list, for
\* each element first checks it is a byte, then stores it, then checks for
\* truncation.  Gives <<returned value, bytes written>>: the returned value is
\* the count written with the terminator, -size when truncated, 0 when the
\* term is not a string; the bytes written include the terminator.
enif_get_string(term, size) ==
    IF Kind(term) # "list"
    THEN <<0, <<0>>>>
    ELSE LET elems == Bytes(term)
             bad == {i \in 1..Len(elems) : elems[i] \notin Byte}
             firstBad == IF bad = {} THEN Len(elems) + 1
                         ELSE CHOOSE i \in bad : \A j \in bad : i <= j
         IN  IF firstBad <= Min(Len(elems), size)
             THEN <<0, SubSeq(elems, 1, firstBad - 1) \o <<0>>>>
             ELSE IF Len(elems) >= size
             THEN <<0 - size, SubSeq(elems, 1, size - 1) \o <<0>>>>
             ELSE <<Len(elems) + 1, elems \o <<0>>>>

\* the bytes a C-string reader (printf %s, SetConsoleTitle) takes from a
\* buffer: those before its first zero byte
CStr(bytes) ==
    LET zeros == {i \in 1..Len(bytes) : bytes[i] = 0}
    IN  IF zeros = {} THEN bytes
        ELSE SubSeq(bytes, 1, (CHOOSE i \in zeros : \A j \in zeros : i <= j) - 1)

\* fill char title[256] from the argument, or reject it.  Gives <<accepted,
\* bytes written>>; when accepted the handler goes on to the platform branch.
TitleMarshal(term) ==
    IF enif_is_binary(term)
    THEN IF ~enif_inspect_binary(term) THEN <<FALSE, <<>>>>
         ELSE IF Len(Bytes(term)) >= TITLE_SIZE THEN <<FALSE, <<>>>>
         ELSE <<TRUE, CopyTerminated(Bytes(term))>>
    ELSE LET got == enif_get_string(term, TITLE_SIZE)
         IN  <<got[1] # 0, got[2]>>

TitleLens == {0, 1, 3} \cup ((TITLE_SIZE - 1)..(TITLE_SIZE + MaxOver))

TitleTerms ==
    {Atom, IntTerm(7), List(<<65, 300>>)}
        \cup {Bin(Payload(len, z)) : len \in TitleLens, z \in {0, 2}}
        \cup {List(Payload(len, z)) : len \in TitleLens, z \in {0, 2}}

\* ESC ] 0 ;  and  BEL
OscPrefix == <<27, 93, 48, 59>>
Bel == <<7>>

\* an invocation of a decoration handler: no Terminal Engine call, no heap
Decorate(name, args, res, calls, out, bytes, capacity) ==
    /\ ~crashed
    /\ op' = name
    /\ argv' = args
    /\ result' = res
    /\ engine' = <<>>
    /\ plat' = calls
    /\ stdout' = out
    /\ buf' = bytes
    /\ cap' = capacity
    /\ alloc' = FALSE
    /\ freed' = FALSE
    /\ UNCHANGED <<platform, crashed>>

tb_set_title ==
    \E t \in TitleTerms, callOk \in BOOLEAN, flushOk \in BOOLEAN :
        LET m == TitleMarshal(t)
            title == CStr(m[2])
        IN  IF ~m[1]
            THEN Decorate("tb_set_title", <<t>>, error_badarg, <<>>, <<>>, m[2], TITLE_SIZE)
            ELSE IF platform = "win32"
            THEN Decorate("tb_set_title", <<t>>,
                          IF callOk THEN ok_set ELSE error_string("SetConsoleTitle failed"),
                          <<PlatCall("SetConsoleTitle", title, callOk)>>,
                          <<>>, m[2], TITLE_SIZE)
            ELSE IF ~callOk
            THEN Decorate("tb_set_title", <<t>>, error_string("Failed to set title"),
                          <<PlatCall("printf", OscPrefix \o title \o Bel, FALSE)>>,
                          <<>>, m[2], TITLE_SIZE)
            ELSE Decorate("tb_set_title", <<t>>, ok_set,
                          <<PlatCall("printf", OscPrefix \o title \o Bel, TRUE),
                            PlatCall("fflush", <<>>, flushOk)>>,
                          OscPrefix \o title \o Bel, m[2], TITLE_SIZE)

\* printf's %d
RECURSIVE Digits(_)
Digits(n) == IF n < 10 THEN <<48 + n>> ELSE Digits(n \div 10) \o <<48 + (n % 10)>>

FormatInt(n) == IF n < 0 THEN <<45>> \o Digits(0 - n) ELSE Digits(n)

\* "\033[3;%d;%dt" with (y, x)
PositionSequence(x, y) ==
    <<27, 91, 51, 59>> \o FormatInt(y) \o <<59>> \o FormatInt(x) \o <<116>>

PosTerms ==
    {Atom, Bignum(1), IntTerm(-1), IntTerm(0), IntTerm(5),
     IntTerm(COORD_MAX), IntTerm(COORD_MAX + 1)}

\* window handles GetConsoleWindow may return (0 is NULL) and rectangles
\* <<left, top, right, bottom>> GetWindowRect may report
Hwnds == {0, 77}
Rects == {<<10, 20, 90, 60>>, <<-5, 0, 635, 480>>}

position_args_ok(a) == enif_get_int(a[1]) /\ enif_get_int(a[2])

\* the range check with its upper comparisons off by one
OutOfBounds_offByOne(x, y) == x < 0 \/ y < 0 \/ x >= COORD_MAX \/ y >= COORD_MAX

\* x < 0 || y < 0 || x > 32767 || y > 32767
OutOfBounds(x, y) == x < 0 \/ y < 0 \/ x > COORD_MAX \/ y > COORD_MAX

\* the native branch moving the window with the rectangle's right / bottom
\* edges in place of its width / height
PositionWin32_edges(x, y, hwnd, rectOk, rect, moveOk) ==
    IF hwnd = 0
    THEN <<<<PlatCall("GetConsoleWindow", <<hwnd>>, FALSE)>>,
          error_string("GetConsoleWindow failed")>>
    ELSE IF ~rectOk
    THEN <<<<PlatCall("GetConsoleWindow", <<hwnd>>, TRUE),
                      PlatCall("GetWindowRect", <<hwnd>>, FALSE)>>,
          error_string("GetWindowRect failed")>>
    ELSE <<<<PlatCall("GetConsoleWindow", <<hwnd>>, TRUE),
                      PlatCall("GetWindowRect", <<hwnd>> \o rect, TRUE),
                      PlatCall("MoveWindow", <<hwnd, x, y, rect[3], rect[4], 1>>, moveOk)>>,
          IF moveOk THEN ok_set ELSE error_string("MoveWindow failed")>>

\* the #ifdef _WIN32 side of tb_set_position: <<platform calls made, result>>
\* for window handle hwnd, rectangle query outcome rectOk / rect and move
\* outcome moveOk
PositionWin32(x, y, hwnd, rectOk, rect, moveOk) ==
    IF hwnd = 0
    THEN <<<<PlatCall("GetConsoleWindow", <<hwnd>>, FALSE)>>,
          error_string("GetConsoleWindow failed")>>
    ELSE IF ~rectOk
    THEN <<<<PlatCall("GetConsoleWindow", <<hwnd>>, TRUE),
                      PlatCall("GetWindowRect", <<hwnd>>, FALSE)>>,
          error_string("GetWindowRect failed")>>
    ELSE LET width == rect[3] - rect[1]
             height == rect[4] - rect[2]
         IN  <<<<PlatCall("GetConsoleWindow", <<hwnd>>, TRUE),
                          PlatCall("GetWindowRect", <<hwnd>> \o rect, TRUE),
                          PlatCall("MoveWindow", <<hwnd, x, y, width, height, 1>>, moveOk)>>,
              IF moveOk THEN ok_set ELSE error_string("MoveWindow failed")>>

tb_set_position ==
    \E a \in PosTerms \X PosTerms, hwnd \in Hwnds, rect \in Rects,
       rectOk \in BOOLEAN, callOk \in BOOLEAN, flushOk \in BOOLEAN :
        IF ~position_args_ok(a)
        THEN Decorate("tb_set_position", a, error_badarg, <<>>, <<>>, <<>>, 0)
        ELSE IF OutOfBounds(Num(a[1]), Num(a[2]))
        THEN Decorate("tb_set_position", a, error_badarg, <<>>, <<>>, <<>>, 0)
        ELSE IF platform = "win32"
        THEN LET w == PositionWin32(Num(a[1]), Num(a[2]), hwnd, rectOk, rect, callOk)
             IN  Decorate("tb_set_position", a, w[2], w[1], <<>>, <<>>, 0)
        ELSE IF ~callOk
        THEN Decorate("tb_set_position", a, error_string("Failed to set position"),
                      <<PlatCall("printf", PositionSequence(Num(a[1]), Num(a[2])), FALSE)>>,
                      <<>>, <<>>, 0)
        ELSE Decorate("tb_set_position", a, ok_set,
                      <<PlatCall("printf", PositionSequence(Num(a[1]), Num(a[2])), TRUE),
                        PlatCall("fflush", <<>>, flushOk)>>,
                      PositionSequence(Num(a[1]), Num(a[2])), <<>>, 0)

Next ==
    \/ nif_tb_init
    \/ nif_tb_shutdown
    \/ nif_tb_width
    \/ nif_tb_height
    \/ nif_tb_clear
    \/ nif_tb_present
    \/ nif_tb_set_cursor
    \/ nif_tb_hide_cursor
    \/ nif_tb_set_cell
    \/ nif_tb_set_input_mode
    \/ nif_tb_set_output_mode
    \/ nif_tb_print
    \/ tb_set_title
    \/ tb_set_position

Spec == Init /\ [][Next]_vars

----------------------------------------------------------------------------
(* Properties *)

EngineOps ==
    {"tb_init", "tb_shutdown", "tb_width", "tb_height", "tb_clear", "tb_present",
     "tb_set_cursor", "tb_hide_cursor", "tb_set_cell", "tb_set_input_mode",
     "tb_set_output_mode", "tb_print"}

IntResultOps ==
    {"tb_init", "tb_width", "tb_height", "tb_hide_cursor", "tb_set_cell",
     "tb_set_input_mode", "tb_set_output_mode", "tb_print"}

MarkerResultOps == {"tb_shutdown", "tb_clear", "tb_present", "tb_set_cursor"}

\* the kinds of argument each operation's table entry and handler expect
ArgKinds(name) ==
    CASE name = "tb_set_cursor" -> <<"int", "int">>
      [] name = "tb_set_cell" -> <<"int", "int", "uint", "uint", "uint">>
      [] name = "tb_set_input_mode" -> <<"int">>
      [] name = "tb_set_output_mode" -> <<"int">>
      [] name = "tb_print" -> <<"int", "int", "uint", "uint", "binary">>
      [] name = "tb_set_title" -> <<"title">>
      [] name = "tb_set_position" -> <<"coord", "coord">>
      [] OTHER -> <<>>

IsByteString(term) ==
    /\ Kind(term) \in {"bin", "list"}
    /\ \A i \in 1..Len(Bytes(term)) : Bytes(term)[i] \in Byte

\* one argument passes the validation the bridge applies to its kind (for a
\* title given as a list the bridge applies no length check: see C1)
Validates(kind, term) ==
    CASE kind = "int" -> Kind(term) = "int"
      [] kind = "uint" -> Kind(term) = "int" /\ Num(term) >= 0
      [] kind = "binary" -> Kind(term) = "bin"
      [] kind = "coord" -> Kind(term) = "int" /\ Num(term) >= 0 /\ Num(term) <= 32767
      [] kind = "title" -> \/ Kind(term) = "bin" /\ Len(Bytes(term)) < 256
                           \/ Kind(term) = "list" /\ IsByteString(term)

AllValidate == \A i \in 1..Len(argv) : Validates(ArgKinds(op)[i], argv[i])

Rejected == result = enif_make_badarg \/ result = error_badarg

NoSideEffect == engine = <<>> /\ plat = <<>> /\ stdout = <<>> /\ ~alloc

\* C1: set_title rejects every payload of 256 bytes or more, binary or
\* string, with InvalidArgument, before any output or platform call.
C1_OversizedTitleRejected ==
    (op = "tb_set_title" /\ IsByteString(argv[1]) /\ Len(Bytes(argv[1])) >= 256)
        => (result = error_badarg /\ plat = <<>> /\ stdout = <<>>)

\* C2: set_position with well-typed integers: out of [0, 32767] in either
\* coordinate gives InvalidArgument with no platform call and no output;
\* inside the range in both, the platform branch is entered.
C2_PositionRange ==
    (op = "tb_set_position" /\ Kind(argv[1]) = "int" /\ Kind(argv[2]) = "int")
        => LET x == Num(argv[1])
               y == Num(argv[2])
           IN  IF x < 0 \/ y < 0 \/ x > 32767 \/ y > 32767
               THEN result = error_badarg /\ plat = <<>> /\ stdout = <<>>
               ELSE plat # <<>> /\ result # error_badarg

C2_Witness ==
    /\ op = "tb_set_position"
    /\ argv = <<IntTerm(32768), IntTerm(0)>>
    /\ result = error_badarg

\* C3: on the escape-sequence branch, set_title with a payload of at most 255
\* arbitrary bytes returns Set, and what is transmitted is ESC ] 0 ; then the
\* payload byte for byte then BEL (a failed write or flush aside).
C3_TitleTransmittedInFull ==
    (/\ platform = "posix"
     /\ op = "tb_set_title"
     /\ IsByteString(argv[1])
     /\ Len(Bytes(argv[1])) <= 255
     /\ \A i \in 1..Len(plat) : Ok(plat[i]))
        => (result = ok_set /\ stdout = OscPrefix \o Bytes(argv[1]) \o Bel)

C5_NoOutputErrorSwallowed ==
    (platform = "posix" /\ op \in {"tb_set_title", "tb_set_position"})
        => /\ result = ok_set =>
                 (Len(plat) = 2 /\ \A i \in 1..Len(plat) : Ok(plat[i]))
           /\ (\E i \in 1..Len(plat) : ~Ok(plat[i])) => Kind(result) = "error_string"

\* C6: every operation completes by returning a value to the caller; no
\* failure in this layer terminates the process.
C6_AlwaysReturns == ~crashed /\ (op # "none" => result # no_result)

\* C7: every buffer print or set_title hands to a C-style string API is
\* null-terminated and every index written while filling it lies within the
\* capacity of its backing storage.
C7_BufferWithinCapacity ==
    (op \in {"tb_print", "tb_set_title"})
        => /\ Len(buf) <= cap
           /\ (engine # <<>> \/ plat # <<>>) => (buf # <<>> /\ buf[Len(buf)] = 0)

\* the single Terminal Engine call an invocation with validated arguments
\* is to be forwarded as
ForwardedCall ==
    <<op,
      [i \in 1..(IF op = "tb_print" THEN 4 ELSE Len(argv)) |-> Num(argv[i])],
      IF op = "tb_print" THEN Bytes(argv[5]) \o <<0>> ELSE <<>>>>

\* C8: each invocation of an engine operation whose arguments validate causes
\* exactly one Terminal Engine call, the one of that operation with the
\* validated argument values; each rejected invocation causes none.
C8_OneCallPerInvocation ==
    (op \in EngineOps)
        => IF AllValidate
           THEN /\ Len(engine) = 1
                /\ <<Fn(engine[1]), Args(engine[1]), Str(engine[1])>>
                       = ForwardedCall
           ELSE engine = <<>>

\* C9: for the integer-returning operations the result is exactly the
\* integer the Terminal Engine call returned, negative codes included; for
\* shutdown, clear, present and set_cursor it is the success marker whatever
\* the engine returned.
C9_EngineStatusPassThrough ==
    engine # <<>>
        => /\ op \in IntResultOps => result = <<"int", Ret(engine[1]), "">>
           /\ op \in MarkerResultOps => result = ok_atom

C9_Witness ==
    /\ op = "tb_hide_cursor"
    /\ engine # <<>>
    /\ Ret(engine[1]) = -1
    /\ result = <<"int", -1, "">>

WinSteps == <<"GetConsoleWindow", "GetWindowRect", "MoveWindow">>

WinFailure(step) ==
    CASE step = "GetConsoleWindow" -> "GetConsoleWindow failed"
      [] step = "GetWindowRect" -> "GetWindowRect failed"
      [] step = "MoveWindow" -> "MoveWindow failed"

\* C10: on the native windowing branch, set_position with valid (x, y) calls
\* GetConsoleWindow, GetWindowRect, MoveWindow in that order, stops at the
\* first failing step with the error naming it, moves the window to (x, y)
\* with the width and height of the rectangle just queried, and returns Set
\* only when all three succeeded.
C10_NativePositionSteps ==
    (platform = "win32" /\ op = "tb_set_position" /\ AllValidate)
        => LET n == Len(plat)
           IN  /\ n \in 1..3
               /\ \A i \in 1..n : Fn(plat[i]) = WinSteps[i]
               /\ \A i \in 1..(n - 1) : Ok(plat[i])
               /\ stdout = <<>>
               /\ IF Ok(plat[n])
                  THEN n = 3 /\ result = ok_set
                  ELSE result = <<"error_string", 0, WinFailure(WinSteps[n])>>
               /\ n = 3 =>
                     Args(plat[3]) = <<Args(plat[1])[1], Num(argv[1]), Num(argv[2]),
                                   Args(plat[2])[4] - Args(plat[2])[2],
                                   Args(plat[2])[5] - Args(plat[2])[3], 1>>

C10_Witness ==
    /\ platform = "win32"
    /\ op = "tb_set_position"
    /\ Len(plat) = 3
    /\ Fn(plat[3]) = "MoveWindow"
    /\ Args(plat[3]) = <<77, 5, 32767, 80, 40, 1>>
    /\ result = ok_set
====
